---- MODULE Spec2Model ----
(***************************************************************************)
(* A model of tripshot's src/main.py: the schedule loader (load_data), the *)
(* duration formatter (time_difference), the three selectors               *)
(* (get_next_buses, get_latest_bus, get_last_bus_from_work) and main.      *)
(*                                                                         *)
(* A time of day (datetime.time) is [sec, us]: whole seconds since         *)
(* midnight and microseconds.  A reading of the wall clock                 *)
(* (datetime.now(), datetime.today()) is [day, sec, us].  A pandas         *)
(* DataFrame is [kind, columns, index, data, dtype]: the column names, the *)
(* index labels and, parallel to them, the rows (functions from column     *)
(* name to value), and the dtype of the Departure Time column.             *)
(* Text read from the CSV file is a sequence of one-character              *)
(* strings.  The arrow of the route labels is written with the two         *)
(* characters "->"; in the text of a cell a character outside ASCII is     *)
(* written as u and its code point in hexadecimal, "u0660".                *)
(*                                                                         *)
(* The wall clock is an input of every call: a call is given the readings  *)
(* the clock shows at each place the code reads it, in the order it reads. *)
(***************************************************************************)
EXTENDS Integers, Sequences, FiniteSets, TLC

VARIABLES csv, cache, df, call

vars == <<csv, cache, df, call>>

----------------------------------------------------------------------------
(* Bounds of the model *)

\* generated schedule files hold at most MaxRows rows
MaxRows == 2
\* the wall clock advances by at most MaxSkew microseconds within one call
MaxSkew == 2

----------------------------------------------------------------------------
(* Program constants *)

SecondsPerDay == 86400
MicrosPerSecond == 1000000
TwoHours == 7200
DefaultMaxResults == 4

RouteToWork == "Palo Alto -> Work"
RouteToPaloAlto == "Work -> Palo Alto"

ColRoute == "Route"
ColDeparture == "Departure Time"
ColTimeLeft == "Time Left"

\* Python's None, and the values a call leaves unset
None == [kind |-> "None"]

\* pandas' NaT, the missing time
NaT == [kind |-> "NaT"]

----------------------------------------------------------------------------
(* datetime.time, datetime.datetime, datetime.timedelta *)

Time(h, m, s, u) == [sec |-> h * 3600 + m * 60 + s, us |-> u]

\* time.__lt__ / time.__gt__: (hour, minute, second, microsecond) in order
TimeLT(a, b) == a.sec < b.sec \/ (a.sec = b.sec /\ a.us < b.us)
TimeGT(a, b) == TimeLT(b, a)

\* datetime.now().time(): the time of day of a clock reading
TimeOf(r) == [sec |-> r.sec, us |-> r.us]

\* datetime.combine(date, time); of a datetime given as date only the date counts
Combine(today, t) == [day |-> today.day, sec |-> t.sec, us |-> t.us]

DateTimeLT(a, b) ==
    \/ a.day < b.day
    \/ a.day = b.day /\ TimeLT(TimeOf(a), TimeOf(b))

\* dep_dt += pd.Timedelta(days=1)
AddOneDay(dt) == [dt EXCEPT !.day = @ + 1]

\* datetime - datetime: a timedelta normalised to 0 <= seconds < 86400 and
\* 0 <= microseconds < 10^6
Subtract(a, b) ==
    LET u0 == a.us - b.us
        s0 == a.sec - b.sec - (IF u0 < 0 THEN 1 ELSE 0)
        u1 == IF u0 < 0 THEN u0 + MicrosPerSecond ELSE u0
        d1 == a.day - b.day - (IF s0 < 0 THEN 1 ELSE 0)
        s1 == IF s0 < 0 THEN s0 + SecondsPerDay ELSE s0
    IN  [days |-> d1, seconds |-> s1, microseconds |-> u1]

\* timedelta.total_seconds() >= n for a whole number n: the microseconds,
\* which are >= 0, never decide it
TotalSecondsAtLeast(td, n) == td.days * SecondsPerDay + td.seconds >= n

----------------------------------------------------------------------------
(* time_difference, lines 17-34 *)

\* time_diff with the day of line 24 never added
time_diff_no_wrap(dep_time, now, today1, today2) ==
    Subtract(Combine(today2, dep_time), Combine(today1, TimeOf(now)))

\* lines 18-26: now is the reading of line 18, today1 and today2 those of
\* lines 19 and 20
time_diff(dep_time, now, today1, today2) ==
    LET now_dt == Combine(today1, TimeOf(now))
        dep_dt == Combine(today2, dep_time)
        dep_dt2 == IF DateTimeLT(dep_dt, now_dt) THEN AddOneDay(dep_dt) ELSE dep_dt
    IN  Subtract(dep_dt2, now_dt)

\* format_time_diff with the hour form from one hour on
format_time_diff_from_one_hour(td) ==
    LET minutes == td.seconds \div 60
        seconds == td.seconds % 60
    IN  IF TotalSecondsAtLeast(td, 3600)
        THEN ToString(minutes \div 60) \o " hours " \o ToString(minutes % 60) \o " minutes"
        ELSE ToString(minutes) \o " minutes " \o ToString(seconds) \o " seconds"

\* format_time_diff with the hour form only above two hours, as the comment
\* of line 29 words it
format_time_diff_above(td) ==
    LET minutes == td.seconds \div 60
        seconds == td.seconds % 60
    IN  IF TotalSecondsAtLeast(td, TwoHours + 1)
        THEN ToString(minutes \div 60) \o " hours " \o ToString(minutes % 60) \o " minutes"
        ELSE ToString(minutes) \o " minutes " \o ToString(seconds) \o " seconds"

\* lines 27-34
format_time_diff(td) ==
    LET minutes == td.seconds \div 60
        seconds == td.seconds % 60
    IN  IF TotalSecondsAtLeast(td, TwoHours)
        THEN ToString(minutes \div 60) \o " hours " \o ToString(minutes % 60) \o " minutes"
        ELSE ToString(minutes) \o " minutes " \o ToString(seconds) \o " seconds"

time_difference(dep_time, now, today1, today2) ==
    format_time_diff(time_diff(dep_time, now, today1, today2))

----------------------------------------------------------------------------
(* load_data, lines 7-14 *)

\* The decimal digits, as the \d of the format's regular expression and int()
\* take them: each row holds the digits of one script from 0 to 9
DecimalDigits ==
    {
     <<"0", "1", "2", "3", "4", "5", "6", "7", "8", "9">>,
     <<"u0660", "u0661", "u0662", "u0663", "u0664", "u0665", "u0666", "u0667", "u0668", "u0669">>,
     <<"u06F0", "u06F1", "u06F2", "u06F3", "u06F4", "u06F5", "u06F6", "u06F7", "u06F8", "u06F9">>,
     <<"u07C0", "u07C1", "u07C2", "u07C3", "u07C4", "u07C5", "u07C6", "u07C7", "u07C8", "u07C9">>,
     <<"u0966", "u0967", "u0968", "u0969", "u096A", "u096B", "u096C", "u096D", "u096E", "u096F">>,
     <<"u09E6", "u09E7", "u09E8", "u09E9", "u09EA", "u09EB", "u09EC", "u09ED", "u09EE", "u09EF">>,
     <<"u0A66", "u0A67", "u0A68", "u0A69", "u0A6A", "u0A6B", "u0A6C", "u0A6D", "u0A6E", "u0A6F">>,
     <<"u0AE6", "u0AE7", "u0AE8", "u0AE9", "u0AEA", "u0AEB", "u0AEC", "u0AED", "u0AEE", "u0AEF">>,
     <<"u0B66", "u0B67", "u0B68", "u0B69", "u0B6A", "u0B6B", "u0B6C", "u0B6D", "u0B6E", "u0B6F">>,
     <<"u0BE6", "u0BE7", "u0BE8", "u0BE9", "u0BEA", "u0BEB", "u0BEC", "u0BED", "u0BEE", "u0BEF">>,
     <<"u0C66", "u0C67", "u0C68", "u0C69", "u0C6A", "u0C6B", "u0C6C", "u0C6D", "u0C6E", "u0C6F">>,
     <<"u0CE6", "u0CE7", "u0CE8", "u0CE9", "u0CEA", "u0CEB", "u0CEC", "u0CED", "u0CEE", "u0CEF">>,
     <<"u0D66", "u0D67", "u0D68", "u0D69", "u0D6A", "u0D6B", "u0D6C", "u0D6D", "u0D6E", "u0D6F">>,
     <<"u0DE6", "u0DE7", "u0DE8", "u0DE9", "u0DEA", "u0DEB", "u0DEC", "u0DED", "u0DEE", "u0DEF">>,
     <<"u0E50", "u0E51", "u0E52", "u0E53", "u0E54", "u0E55", "u0E56", "u0E57", "u0E58", "u0E59">>,
     <<"u0ED0", "u0ED1", "u0ED2", "u0ED3", "u0ED4", "u0ED5", "u0ED6", "u0ED7", "u0ED8", "u0ED9">>,
     <<"u0F20", "u0F21", "u0F22", "u0F23", "u0F24", "u0F25", "u0F26", "u0F27", "u0F28", "u0F29">>,
     <<"u1040", "u1041", "u1042", "u1043", "u1044", "u1045", "u1046", "u1047", "u1048", "u1049">>,
     <<"u1090", "u1091", "u1092", "u1093", "u1094", "u1095", "u1096", "u1097", "u1098", "u1099">>,
     <<"u17E0", "u17E1", "u17E2", "u17E3", "u17E4", "u17E5", "u17E6", "u17E7", "u17E8", "u17E9">>,
     <<"u1810", "u1811", "u1812", "u1813", "u1814", "u1815", "u1816", "u1817", "u1818", "u1819">>,
     <<"u1946", "u1947", "u1948", "u1949", "u194A", "u194B", "u194C", "u194D", "u194E", "u194F">>,
     <<"u19D0", "u19D1", "u19D2", "u19D3", "u19D4", "u19D5", "u19D6", "u19D7", "u19D8", "u19D9">>,
     <<"u1A80", "u1A81", "u1A82", "u1A83", "u1A84", "u1A85", "u1A86", "u1A87", "u1A88", "u1A89">>,
     <<"u1A90", "u1A91", "u1A92", "u1A93", "u1A94", "u1A95", "u1A96", "u1A97", "u1A98", "u1A99">>,
     <<"u1B50", "u1B51", "u1B52", "u1B53", "u1B54", "u1B55", "u1B56", "u1B57", "u1B58", "u1B59">>,
     <<"u1BB0", "u1BB1", "u1BB2", "u1BB3", "u1BB4", "u1BB5", "u1BB6", "u1BB7", "u1BB8", "u1BB9">>,
     <<"u1C40", "u1C41", "u1C42", "u1C43", "u1C44", "u1C45", "u1C46", "u1C47", "u1C48", "u1C49">>,
     <<"u1C50", "u1C51", "u1C52", "u1C53", "u1C54", "u1C55", "u1C56", "u1C57", "u1C58", "u1C59">>,
     <<"uA620", "uA621", "uA622", "uA623", "uA624", "uA625", "uA626", "uA627", "uA628", "uA629">>,
     <<"uA8D0", "uA8D1", "uA8D2", "uA8D3", "uA8D4", "uA8D5", "uA8D6", "uA8D7", "uA8D8", "uA8D9">>,
     <<"uA900", "uA901", "uA902", "uA903", "uA904", "uA905", "uA906", "uA907", "uA908", "uA909">>,
     <<"uA9D0", "uA9D1", "uA9D2", "uA9D3", "uA9D4", "uA9D5", "uA9D6", "uA9D7", "uA9D8", "uA9D9">>,
     <<"uA9F0", "uA9F1", "uA9F2", "uA9F3", "uA9F4", "uA9F5", "uA9F6", "uA9F7", "uA9F8", "uA9F9">>,
     <<"uAA50", "uAA51", "uAA52", "uAA53", "uAA54", "uAA55", "uAA56", "uAA57", "uAA58", "uAA59">>,
     <<"uABF0", "uABF1", "uABF2", "uABF3", "uABF4", "uABF5", "uABF6", "uABF7", "uABF8", "uABF9">>,
     <<"uFF10", "uFF11", "uFF12", "uFF13", "uFF14", "uFF15", "uFF16", "uFF17", "uFF18", "uFF19">>,
     <<"u104A0", "u104A1", "u104A2", "u104A3", "u104A4", "u104A5", "u104A6", "u104A7", "u104A8", "u104A9">>,
     <<"u10D30", "u10D31", "u10D32", "u10D33", "u10D34", "u10D35", "u10D36", "u10D37", "u10D38", "u10D39">>,
     <<"u11066", "u11067", "u11068", "u11069", "u1106A", "u1106B", "u1106C", "u1106D", "u1106E", "u1106F">>,
     <<"u110F0", "u110F1", "u110F2", "u110F3", "u110F4", "u110F5", "u110F6", "u110F7", "u110F8", "u110F9">>,
     <<"u11136", "u11137", "u11138", "u11139", "u1113A", "u1113B", "u1113C", "u1113D", "u1113E", "u1113F">>,
     <<"u111D0", "u111D1", "u111D2", "u111D3", "u111D4", "u111D5", "u111D6", "u111D7", "u111D8", "u111D9">>,
     <<"u112F0", "u112F1", "u112F2", "u112F3", "u112F4", "u112F5", "u112F6", "u112F7", "u112F8", "u112F9">>,
     <<"u11450", "u11451", "u11452", "u11453", "u11454", "u11455", "u11456", "u11457", "u11458", "u11459">>,
     <<"u114D0", "u114D1", "u114D2", "u114D3", "u114D4", "u114D5", "u114D6", "u114D7", "u114D8", "u114D9">>,
     <<"u11650", "u11651", "u11652", "u11653", "u11654", "u11655", "u11656", "u11657", "u11658", "u11659">>,
     <<"u116C0", "u116C1", "u116C2", "u116C3", "u116C4", "u116C5", "u116C6", "u116C7", "u116C8", "u116C9">>,
     <<"u11730", "u11731", "u11732", "u11733", "u11734", "u11735", "u11736", "u11737", "u11738", "u11739">>,
     <<"u118E0", "u118E1", "u118E2", "u118E3", "u118E4", "u118E5", "u118E6", "u118E7", "u118E8", "u118E9">>,
     <<"u11950", "u11951", "u11952", "u11953", "u11954", "u11955", "u11956", "u11957", "u11958", "u11959">>,
     <<"u11C50", "u11C51", "u11C52", "u11C53", "u11C54", "u11C55", "u11C56", "u11C57", "u11C58", "u11C59">>,
     <<"u11D50", "u11D51", "u11D52", "u11D53", "u11D54", "u11D55", "u11D56", "u11D57", "u11D58", "u11D59">>,
     <<"u11DA0", "u11DA1", "u11DA2", "u11DA3", "u11DA4", "u11DA5", "u11DA6", "u11DA7", "u11DA8", "u11DA9">>,
     <<"u16A60", "u16A61", "u16A62", "u16A63", "u16A64", "u16A65", "u16A66", "u16A67", "u16A68", "u16A69">>,
     <<"u16AC0", "u16AC1", "u16AC2", "u16AC3", "u16AC4", "u16AC5", "u16AC6", "u16AC7", "u16AC8", "u16AC9">>,
     <<"u16B50", "u16B51", "u16B52", "u16B53", "u16B54", "u16B55", "u16B56", "u16B57", "u16B58", "u16B59">>,
     <<"u1D7CE", "u1D7CF", "u1D7D0", "u1D7D1", "u1D7D2", "u1D7D3", "u1D7D4", "u1D7D5", "u1D7D6", "u1D7D7">>,
     <<"u1D7D8", "u1D7D9", "u1D7DA", "u1D7DB", "u1D7DC", "u1D7DD", "u1D7DE", "u1D7DF", "u1D7E0", "u1D7E1">>,
     <<"u1D7E2", "u1D7E3", "u1D7E4", "u1D7E5", "u1D7E6", "u1D7E7", "u1D7E8", "u1D7E9", "u1D7EA", "u1D7EB">>,
     <<"u1D7EC", "u1D7ED", "u1D7EE", "u1D7EF", "u1D7F0", "u1D7F1", "u1D7F2", "u1D7F3", "u1D7F4", "u1D7F5">>,
     <<"u1D7F6", "u1D7F7", "u1D7F8", "u1D7F9", "u1D7FA", "u1D7FB", "u1D7FC", "u1D7FD", "u1D7FE", "u1D7FF">>,
     <<"u1E140", "u1E141", "u1E142", "u1E143", "u1E144", "u1E145", "u1E146", "u1E147", "u1E148", "u1E149">>,
     <<"u1E2F0", "u1E2F1", "u1E2F2", "u1E2F3", "u1E2F4", "u1E2F5", "u1E2F6", "u1E2F7", "u1E2F8", "u1E2F9">>,
     <<"u1E950", "u1E951", "u1E952", "u1E953", "u1E954", "u1E955", "u1E956", "u1E957", "u1E958", "u1E959">>,
     <<"u1FBF0", "u1FBF1", "u1FBF2", "u1FBF3", "u1FBF4", "u1FBF5", "u1FBF6", "u1FBF7", "u1FBF8", "u1FBF9">>}

\* int() of one decimal digit
DecimalValue ==
    [c \in UNION {{row[k] : k \in 1..10} : row \in DecimalDigits} |->
        CHOOSE v \in 0..9 : \E row \in DecimalDigits : row[v + 1] = c]

\* For each character of text the set of its value as a decimal digit: the
\* value int() gives it, or nothing for a character \d does not match
DigitValue(text) ==
    [i \in 1..Len(text) |->
        IF text[i] \in DOMAIN DecimalValue THEN {DecimalValue[text[i]]} ELSE {}]

\* \d at each of the positions from..to, given the digit values of the text
IsDigits(values, from, to) == \A i \in from..to : values[i] # {}

\* int() of the one or two digits at the positions from..to
Number(values, from, to) ==
    LET digit(i) == CHOOSE v \in values[i] : TRUE
    IN  IF from = to THEN digit(from) ELSE 10 * digit(from) + digit(to)

\* the cells pd.read_csv reads as missing (NaN), line 9
NaValues ==
    {<<>>,
     <<"#", "N", "/", "A">>,
     <<"#", "N", "/", "A", " ", "N", "/", "A">>,
     <<"#", "N", "A">>,
     <<"-", "1", ".", "#", "I", "N", "D">>,
     <<"-", "1", ".", "#", "Q", "N", "A", "N">>,
     <<"-", "N", "a", "N">>,
     <<"-", "n", "a", "n">>,
     <<"1", ".", "#", "I", "N", "D">>,
     <<"1", ".", "#", "Q", "N", "A", "N">>,
     <<"<", "N", "A", ">">>,
     <<"N", "/", "A">>,
     <<"N", "A">>,
     <<"N", "U", "L", "L">>,
     <<"N", "a", "N">>,
     <<"N", "o", "n", "e">>,
     <<"n", "/", "a">>,
     <<"n", "a", "n">>,
     <<"n", "u", "l", "l">>}

\* the texts pd.to_datetime takes for a missing time, line 13
NatStrings ==
    {<<"N", "a", "T">>,
     <<"n", "a", "t">>,
     <<"N", "A", "T">>,
     <<"n", "a", "n">>,
     <<"N", "a", "N">>,
     <<"N", "A", "N">>}

\* a cell of the file as read_csv and .astype(str) give it, lines 9 and 12: a
\* missing cell is NaN, and the text of NaN is "nan"
CellText(raw) == IF raw \in NaValues THEN <<"n", "a", "n">> ELSE raw

\* .str[-8:], line 12
Last8(text) ==
    IF Len(text) <= 8 THEN text ELSE SubSeq(text, Len(text) - 7, Len(text))

\* the directive %H at the positions from..to: 2[0-3]|[0-1]\d|\d
MatchesH(text, values, from, to) ==
    \/ to = from + 1 /\ text[from] = "2" /\ text[to] \in {"0", "1", "2", "3"}
    \/ to = from + 1 /\ text[from] \in {"0", "1"} /\ IsDigits(values, to, to)
    \/ to = from /\ IsDigits(values, from, to)

\* the directive %M: [0-5]\d|\d
MatchesM(text, values, from, to) ==
    \/ to = from + 1 /\ text[from] \in {"0", "1", "2", "3", "4", "5"}
                     /\ IsDigits(values, to, to)
    \/ to = from /\ IsDigits(values, from, to)

\* the directive %S: 6[0-1]|[0-5]\d|\d
MatchesS(text, values, from, to) ==
    \/ to = from + 1 /\ text[from] = "6" /\ text[to] \in {"0", "1"}
    \/ MatchesM(text, values, from, to)

\* The ways the whole of text matches the format %H:%M:%S, as the widths of
\* the three fields; there is at most one.
Splits(text, values) ==
    {w \in (1..2) \X (1..2) \X (1..2) :
        /\ Len(text) = w[1] + w[2] + w[3] + 2
        /\ text[w[1] + 1] = ":"
        /\ text[w[1] + w[2] + 2] = ":"
        /\ MatchesH(text, values, 1, w[1])
        /\ MatchesM(text, values, w[1] + 2, w[1] + w[2] + 1)
        /\ MatchesS(text, values, w[1] + w[2] + 3, Len(text))}

\* The time of day of a text that matches the format with the field widths w.
\* The fields are not checked beyond the format: they are added up from
\* midnight, so that the seconds 60 and 61 carry into the minute and past
\* 23:59:59 into the next day, of which .dt.time keeps the time of day.
FieldsToTime(values, w, n) ==
    LET h == Number(values, 1, w[1])
        m == Number(values, w[1] + 2, w[1] + w[2] + 1)
        s == Number(values, w[1] + w[2] + 3, n)
    IN  [kind |-> "time",
         sec |-> (h * 3600 + m * 60 + s) % SecondsPerDay,
         us |-> 0]

\* the outcome of the format on a text, its ways to match given
MatchToTime(text, values, ways) ==
    IF ways = {} THEN None
    ELSE FieldsToTime(values, CHOOSE w \in ways : TRUE, Len(text))

\* the texts pd.to_datetime takes for the time the wall clock shows, whatever
\* the format, line 13
ClockTexts == {<<"n", "o", "w">>, <<"t", "o", "d", "a", "y">>}

\* pd.to_datetime(..., format="%H:%M:%S").dt.time of one value, line 13: a time
\* of day, NaT for the empty text and the texts of a missing time, the time
\* of day of the clock reading now for the texts "now" and "today" (None when
\* the value makes no reading), or None where to_datetime raises ValueError
ParseTime(text, now) ==
    IF text = <<>> \/ text \in NatStrings THEN NaT
    ELSE IF text \in ClockTexts THEN [kind |-> "time", sec |-> now.sec, us |-> now.us]
    ELSE MatchToTime(text, DigitValue(text), Splits(text, DigitValue(text)))

Row(route, dep) == (ColRoute :> route) @@ (ColDeparture :> dep)

\* the Departure Time cells of the file as line 12 leaves them
Cells(file) ==
    [i \in 1..Len(file.rows) |-> Last8(CellText(file.rows[i].departure))]

\* the clock readings line 13 makes for the first n cells: one for each cell
\* that holds "now" or "today"
ClockReads(cells, n) == Cardinality({k \in 1..n : cells[k] \in ClockTexts})

\* The dtype of the Series that .dt.time makes of the converted values, line
\* 13: the accessor hands pandas an object array and pandas infers the dtype
\* anew: an array that has values and only missing ones becomes
\* datetime64[ns]; with a time in it, or with no value at all, it stays object.
InferDtype(values) ==
    IF Len(values) > 0 /\ \A i \in 1..Len(values) : values[i] = NaT
    THEN "datetime64[ns]"
    ELSE "object"

\* The outcome of load_data on a schedule file, clk being the readings the
\* wall clock gives it: [raised, value, reads].  The values are converted in
\* order, and the first that fails ends the conversion.  The table's dtype is
\* that of its Departure Time column.
load_data(file, clk) ==
    IF ~file.readable
    THEN [raised |-> "FileNotFoundError", value |-> None, reads |-> 0]
    ELSE LET n == Len(file.rows)
             cells == Cells(file)
             parsed == [i \in 1..n |->
                          ParseTime(cells[i],
                                    IF cells[i] \in ClockTexts
                                    THEN clk[ClockReads(cells, i)] ELSE None)]
             failed == {i \in 1..n : parsed[i] = None}
         IN  IF failed # {}
             THEN [raised |-> "ValueError", value |-> None,
                   reads |-> ClockReads(cells, (CHOOSE i \in failed :
                                                  \A k \in failed : i <= k) - 1)]
             ELSE [raised |-> "None",
                   value |-> [kind |-> "DataFrame",
                              columns |-> <<ColRoute, ColDeparture>>,
                              index |-> [i \in 1..n |-> i - 1],
                              data |-> [i \in 1..n |->
                                          Row(file.rows[i].route,
                                              IF parsed[i] = NaT THEN NaT
                                              ELSE [sec |-> parsed[i].sec,
                                                    us |-> parsed[i].us])],
                              dtype |-> InferDtype(parsed)],
                   reads |-> ClockReads(cells, n)]

----------------------------------------------------------------------------
(* pandas.DataFrame operations used by the selectors *)

\* series > now and series < now, lines 39, 49 and 63, now being a
\* datetime.time: a datetime64[ns] column cannot be compared with it, and the
\* comparison raises TypeError, whatever the number of its rows
InvalidComparison(frame) == frame.dtype = "datetime64[ns]"

\* one element of series > now and of series < now for an object column: a
\* missing value compares False either way
ElementGT(x, now) == IF x = NaT THEN FALSE ELSE TimeGT(x, now)
ElementLT(x, now) == IF x = NaT THEN FALSE ELSE TimeLT(x, now)

Size(frame) == Len(frame.data)

\* DataFrame.empty
Empty(frame) == Size(frame) = 0

RECURSIVE KeptPositions(_, _)
\* the positions 1..n at which the boolean mask holds, in order
KeptPositions(mask, n) ==
    IF n = 0 THEN <<>>
    ELSE IF mask[n] THEN Append(KeptPositions(mask, n - 1), n)
         ELSE KeptPositions(mask, n - 1)

\* the rows at the given positions, with their index labels: a new frame,
\* its columns of the dtypes they had
Take(frame, positions) ==
    [kind |-> "DataFrame",
     columns |-> frame.columns,
     index |-> [j \in 1..Len(positions) |-> frame.index[positions[j]]],
     data |-> [j \in 1..Len(positions) |-> frame.data[positions[j]]],
     dtype |-> frame.dtype]

\* frame[mask]: boolean indexing returns a new frame, the rows kept in order
Mask(frame, mask) == Take(frame, KeptPositions(mask, Size(frame)))

\* frame[col] = values: sets the column on this frame, appending it to the
\* columns when it is new
SetItem(frame, col, values) ==
    [frame EXCEPT
        !.columns = IF \E c \in 1..Len(@) : @[c] = col THEN @ ELSE Append(@, col),
        !.data = [j \in 1..Size(frame) |-> (col :> values[j]) @@ frame.data[j]]]

RECURSIVE InsertByTime(_, _, _, _)
\* positions sorted by the time in column col, with position p inserted
\* after every position whose time is not greater (ties keep their order)
InsertByTime(frame, col, sorted, p) ==
    IF sorted = <<>> THEN <<p>>
    ELSE LET last == sorted[Len(sorted)]
         IN  IF TimeLT(frame.data[p][col], frame.data[last][col])
             THEN Append(InsertByTime(frame, col, SubSeq(sorted, 1, Len(sorted) - 1), p), last)
             ELSE Append(sorted, p)

RECURSIVE SortedPositions(_, _, _)
SortedPositions(frame, col, n) ==
    IF n = 0 THEN <<>>
    ELSE InsertByTime(frame, col, SortedPositions(frame, col, n - 1), n)

\* frame.sort_values(col): a new frame, ascending; for the few rows of a
\* schedule the sort runs as an insertion sort and keeps ties in order
SortValues(frame, col) == Take(frame, SortedPositions(frame, col, Size(frame)))

Min(a, b) == IF a < b THEN a ELSE b
Max(a, b) == IF a > b THEN a ELSE b

\* frame.head(n): the first n rows; all but the last -n when n is negative
HeadRows(frame, n) ==
    LET m == IF n >= 0 THEN Min(n, Size(frame)) ELSE Max(Size(frame) + n, 0)
    IN  Take(frame, [j \in 1..m |-> j])

\* frame.iloc[-1:]: the last row as a frame (no row of an empty frame)
ILocLast(frame) ==
    Take(frame, IF Empty(frame) THEN <<>> ELSE <<Size(frame)>>)

\* frame.reset_index(drop=True)
ResetIndex(frame) == [frame EXCEPT !.index = [j \in 1..Size(frame) |-> j - 1]]

\* frame[[c1, c2, ...]]: the named columns only
Select(frame, cols) ==
    [frame EXCEPT
        !.columns = cols,
        !.data = [j \in 1..Size(frame) |->
                    [c \in {cols[k] : k \in 1..Len(cols)} |-> frame.data[j][c]]]]

\* frame["Departure Time"].apply(time_difference): one call per row, in
\* order; the call for row j makes the clock readings used + 3j - 2 .. used + 3j
ApplyTimeDifference(frame, clk, used) ==
    [j \in 1..Size(frame) |->
        time_difference(frame.data[j][ColDeparture],
                        clk[used + 3 * j - 2], clk[used + 3 * j - 1], clk[used + 3 * j])]

----------------------------------------------------------------------------
(* The selectors, lines 37-73.  Each takes the table, its arguments and the *)
(* readings clk the wall clock gives from the call's first reading on, and  *)
(* yields the exception that leaves it (raised, "None" when it returns),    *)
(* the value returned (ret), the table as the call leaves it (df) and the   *)
(* number of clock readings made (reads).                                   *)
(*                                                                         *)
(* A call holds its frames by the names the code gives them; "df" is the    *)
(* table the caller passed, the caller's own frame.  An expression that     *)
(* makes a frame (boolean indexing, sort_values, head, iloc, reset_index)   *)
(* makes a new one, which Bind puts under its name; an assignment to a      *)
(* column, SetColumn, changes the frame of that name and no other.  What    *)
(* the call leaves of the table is the frame "df" after its last statement. *)

\* name = frame
Bind(frames, name, frame) == (name :> frame) @@ frames

\* the frame the caller passed as df
Passed(table) == "df" :> table

\* name[col] = name["Departure Time"].apply(time_difference): the readings of
\* the calls follow the first `used` readings of clk
SetColumn(frames, name, col, clk, used) ==
    [frames EXCEPT ![name] = SetItem(@, col, ApplyTimeDifference(@, clk, used))]

\* the comparison with now raises: the call ends there, after its one clock
\* reading, with the frames as they are
Raises(frames) ==
    [raised |-> "TypeError", ret |-> None, df |-> frames["df"], reads |-> 1]

\* get_next_buses filtering and annotating the table itself
get_next_buses_in_place(table, route, max_results, clk) ==
    LET now == TimeOf(clk[1])
        passed == Passed(table)
        filtered ==
            Bind(passed, "upcoming_buses",
                 Mask(passed["df"],
                      [i \in 1..Size(passed["df"]) |->
                          /\ passed["df"].data[i][ColRoute] = route
                          /\ ElementGT(passed["df"].data[i][ColDeparture], now)]))
        annotated == SetColumn(filtered, "upcoming_buses", ColTimeLeft, clk, 1)
        written == Bind(annotated, "df", annotated["upcoming_buses"])
    IN  IF InvalidComparison(passed["df"]) THEN Raises(passed)
        ELSE [raised |-> "None",
              ret |-> ResetIndex(HeadRows(SortValues(written["upcoming_buses"], ColDeparture),
                                          max_results)),
              df |-> written["df"],
              reads |-> 1 + 3 * Size(written["upcoming_buses"])]

get_next_buses(table, route, max_results, clk) ==
    LET now == TimeOf(clk[1])
        passed == Passed(table)
        \* line 39
        filtered ==
            Bind(passed, "upcoming_buses",
                 Mask(passed["df"],
                      [i \in 1..Size(passed["df"]) |->
                          /\ passed["df"].data[i][ColRoute] = route
                          /\ ElementGT(passed["df"].data[i][ColDeparture], now)]))
        \* line 42
        annotated == SetColumn(filtered, "upcoming_buses", ColTimeLeft, clk, 1)
    IN  IF InvalidComparison(passed["df"]) THEN Raises(passed)
        ELSE [raised |-> "None",
              ret |-> ResetIndex(HeadRows(SortValues(annotated["upcoming_buses"], ColDeparture),
                                          max_results)),
              df |-> annotated["df"],
              reads |-> 1 + 3 * Size(annotated["upcoming_buses"])]

\* get_latest_bus taking the row it returns out of the table
get_latest_bus_consuming(table, route, clk) ==
    LET now == TimeOf(clk[1])
        passed == Passed(table)
        filtered ==
            Bind(passed, "past_buses",
                 Mask(passed["df"],
                      [i \in 1..Size(passed["df"]) |->
                          /\ passed["df"].data[i][ColRoute] = route
                          /\ ElementLT(passed["df"].data[i][ColDeparture], now)]))
        annotated == SetColumn(filtered, "past_buses", ColTimeLeft, clk, 1)
        latest == ILocLast(SortValues(annotated["past_buses"], ColDeparture))
        taken ==
            IF Empty(annotated["past_buses"]) THEN annotated
            ELSE Bind(annotated, "df",
                      Mask(annotated["df"],
                           [i \in 1..Size(annotated["df"]) |->
                               annotated["df"].index[i] # latest.index[1]]))
    IN  IF InvalidComparison(passed["df"]) THEN Raises(passed)
        ELSE [raised |-> "None",
              ret |-> IF Empty(taken["past_buses"]) THEN None ELSE latest,
              df |-> taken["df"],
              reads |-> 1 + 3 * Size(taken["past_buses"])]

get_latest_bus(table, route, clk) ==
    LET now == TimeOf(clk[1])
        passed == Passed(table)
        \* line 49
        filtered ==
            Bind(passed, "past_buses",
                 Mask(passed["df"],
                      [i \in 1..Size(passed["df"]) |->
                          /\ passed["df"].data[i][ColRoute] = route
                          /\ ElementLT(passed["df"].data[i][ColDeparture], now)]))
        \* line 52
        annotated == SetColumn(filtered, "past_buses", ColTimeLeft, clk, 1)
    IN  IF InvalidComparison(passed["df"]) THEN Raises(passed)
        ELSE [raised |-> "None",
              ret |-> IF Empty(annotated["past_buses"]) THEN None
                      ELSE ILocLast(SortValues(annotated["past_buses"], ColDeparture)),
              df |-> annotated["df"],
              reads |-> 1 + 3 * Size(annotated["past_buses"])]

get_last_bus_from_work(table, clk) ==
    LET now == TimeOf(clk[1])
        passed == Passed(table)
        \* line 62
        of_route ==
            Bind(passed, "work_to_palo_alto",
                 Mask(passed["df"],
                      [i \in 1..Size(passed["df"]) |->
                          passed["df"].data[i][ColRoute] = RouteToPaloAlto]))
        \* line 63
        filtered ==
            Bind(of_route, "future_buses",
                 Mask(of_route["work_to_palo_alto"],
                      [i \in 1..Size(of_route["work_to_palo_alto"]) |->
                          ElementGT(of_route["work_to_palo_alto"].data[i][ColDeparture], now)]))
        \* line 69
        picked ==
            Bind(filtered, "last_bus",
                 ILocLast(SortValues(filtered["future_buses"], ColDeparture)))
        \* line 72
        annotated == SetColumn(picked, "last_bus", ColTimeLeft, clk, 1)
    IN  IF InvalidComparison(of_route["work_to_palo_alto"]) THEN Raises(of_route)
        ELSE IF Empty(filtered["future_buses"])
        THEN [raised |-> "None", ret |-> None, df |-> filtered["df"], reads |-> 1]
        ELSE [raised |-> "None", ret |-> annotated["last_bus"], df |-> annotated["df"],
              reads |-> 4]

----------------------------------------------------------------------------
(* The inputs: schedule files, routes, limits, clock readings *)

\* Departure Time fields as the file holds them
Text0800 == <<"0", "8", ":", "0", "0", ":", "0", "0">>
Text0930 == <<"0", "9", ":", "3", "0", ":", "0", "0">>
Text1000 == <<"1", "0", ":", "0", "0", ":", "0", "0">>
TextDated0945 ==
    <<"2", "0", "2", "4", "-", "0", "1", "-", "0", "1", " ", "0", "9", ":", "4", "5", ":", "0", "0">>
TextShort235959 == <<"2", "3", ":", "5", "9", ":", "5", "9">>
TextEmpty == <<>>
TextHour25 == <<"2", "5", ":", "0", "0", ":", "0", "0">>
TextSecond60 == <<"0", "8", ":", "0", "0", ":", "6", "0">>
TextSecond61 == <<"2", "3", ":", "5", "9", ":", "6", "1">>
TextOtherDigits == <<"0", "uFF18", ":", "0", "u0660", ":", "0", "0">>
TextNow == <<"n", "o", "w">>
TextToday == <<"t", "o", "d", "a", "y">>
TextNone == <<"N", "o", "n", "e">>

RawTimes == {Text0800, TextDated0945, TextShort235959}

\* the rows generated schedule files are made of; one has no valid time and
\* one has an empty Departure Time cell
RawRows ==
    [route : {RouteToWork, RouteToPaloAlto}, departure : RawTimes]
        \cup {[route |-> RouteToWork, departure |-> TextHour25],
              [route |-> RouteToPaloAlto, departure |-> TextEmpty]}

RECURSIVE SeqsUpTo(_, _)
\* the sequences over S of length at most n
SeqsUpTo(S, n) ==
    IF n = 0 THEN {<<>>}
    ELSE LET shorter == SeqsUpTo(S, n - 1)
         IN  shorter \cup {Append(q, x) : q \in {r \in shorter : Len(r) = n - 1}, x \in S}

\* the schedule of the scenarios of the specification
ScenarioFile ==
    [readable |-> TRUE,
     rows |-> << [route |-> "X->Y", departure |-> Text0800],
                 [route |-> "X->Y", departure |-> Text0930],
                 [route |-> "Y->X", departure |-> Text1000] >>]

\* a day of one route, out of order and with a departure listed twice
WorkDayFile ==
    [readable |-> TRUE,
     rows |-> << [route |-> RouteToPaloAlto, departure |-> TextDated0945],
                 [route |-> RouteToPaloAlto, departure |-> TextShort235959],
                 [route |-> RouteToPaloAlto, departure |-> Text0800],
                 [route |-> RouteToPaloAlto, departure |-> TextDated0945] >>]

\* a schedule whose times are written with a sixtieth and a sixty-first
\* second and with digits of other scripts
LenientFile ==
    [readable |-> TRUE,
     rows |-> << [route |-> RouteToWork, departure |-> TextSecond61],
                 [route |-> RouteToWork, departure |-> TextSecond60],
                 [route |-> RouteToWork, departure |-> TextOtherDigits] >>]

\* a schedule with departures written as "now" and "today"
ClockFile ==
    [readable |-> TRUE,
     rows |-> << [route |-> RouteToPaloAlto, departure |-> TextNow],
                 [route |-> RouteToWork, departure |-> TextToday] >>]

\* a schedule of one route with no departure time filled in
UntimedFile ==
    [readable |-> TRUE,
     rows |-> << [route |-> RouteToWork, departure |-> TextNone],
                 [route |-> RouteToWork, departure |-> TextEmpty] >>]

\* bus_schedule.csv is missing
MissingFile == [readable |-> FALSE, rows |-> <<>>]

Files ==
    {[readable |-> TRUE, rows |-> q] : q \in SeqsUpTo(RawRows, MaxRows)}
        \cup {ScenarioFile, WorkDayFile, LenientFile, ClockFile, UntimedFile,
                MissingFile}

Routes == {RouteToWork, RouteToPaloAlto, "X->Y", "Y->X"}

Limits == {0, 1, 2, DefaultMaxResults}

\* the times of day at which a call makes its first clock reading
NowValues ==
    {Time(7, 45, 0, 0), Time(7, 59, 59, 999999), Time(8, 0, 0, 0),
     Time(9, 0, 0, 0), Time(23, 59, 59, 999999)}

\* the departure times time_difference is called with directly
DepTimes ==
    {Time(0, 0, 0, 0), Time(8, 0, 0, 0), Time(9, 30, 0, 0), Time(9, 44, 59, 0),
     Time(9, 45, 0, 0), Time(10, 0, 0, 0), Time(23, 59, 59, 0)}

\* the clock reading a microseconds after reading r
Advance(r, a) ==
    LET u == r.us + a
        s == r.sec + u \div MicrosPerSecond
    IN  [day |-> r.day + s \div SecondsPerDay,
         sec |-> s % SecondsPerDay,
         us |-> u % MicrosPerSecond]

\* The readings a call can get of a clock that shows now0 at its first
\* reading: the same n times, or from some reading on up to MaxSkew
\* microseconds later.
ClockTraces(now0, n) ==
    LET r0 == [day |-> 0, sec |-> now0.sec, us |-> now0.us]
    IN  {[i \in 1..n |-> r0]}
            \cup {[i \in 1..n |-> IF i < p THEN r0 ELSE Advance(r0, a)] :
                    p \in 2..n, a \in 1..MaxSkew}

----------------------------------------------------------------------------
(* The state: the schedule file (csv), what st.cache_data holds for         *)
(* load_data (cache: None until load_data has returned a table, then that  *)
(* table as it was returned), the frame the session got from load_data and *)
(* passes to the selectors (df: None until then), and the last call with   *)
(* its outcome.                                                            *)

NoCall ==
    [op |-> "none", route |-> "", max_results |-> 0, dep_time |-> None,
     table |-> None, clk |-> <<>>, ret |-> None, raised |-> "None",
     rendered |-> <<>>, repeated |-> FALSE, prev_table |-> None,
     prev_clk |-> <<>>, prev_ret |-> None, prev_raised |-> "None"]

Loaded == df.kind = "DataFrame"

\* no call's result is held by the session
Idle == call.op \in {"none", "load_data"}

\* the readings after the first n
Drop(clk, n) == SubSeq(clk, n + 1, Len(clk))

\* a clock standing at now0 for n readings
Frozen(now0, n) == [i \in 1..n |-> [day |-> 0, sec |-> now0.sec, us |-> now0.us]]

----------------------------------------------------------------------------
(* main, lines 77-121: what it hands the renderer (rendered), the exception *)
(* that leaves it (raised), what st.cache_data holds at the end (cache),    *)
(* the frame main holds at the end (df) and the clock readings made         *)
(* (reads).  cached is what st.cache_data holds for load_data when main     *)
(* starts: load_data() returns a copy of it, and runs only when there is    *)
(* none.                                                                    *)

\* one call of the renderer (st.markdown, st.title, st.header, st.info,
\* st.warning, st.table); the pictographs of the texts are left out
Rendering(fn, text, table) == [fn |-> fn, text |-> text, table |-> table]

ShownColumns == <<ColRoute, ColDeparture, ColTimeLeft>>

\* lines 97-100 and 107-110
NextBusesSection(buses) ==
    IF Empty(buses)
    THEN <<Rendering("info", "No upcoming buses available.", None)>>
    ELSE <<Rendering("table", "", Select(buses, ShownColumns))>>

\* lines 117-121
LastBusSection(last_bus) ==
    IF last_bus = None
    THEN <<Rendering("info", "No past buses available yet.", None)>>
    ELSE <<Rendering("table", "", Select(last_bus, ShownColumns)),
           Rendering("warning",
                     "If you missed this bus, there are no more buses for today.", None)>>

Spacer == Rendering("markdown", "<br><hr><br>", None)

\* load_data() under st.cache_data, lines 7 and 89: a copy of the table held,
\* or the outcome of load_data when none is held
cached_load_data(cached, file, clk) ==
    IF cached.kind = "DataFrame"
    THEN [raised |-> "None", value |-> cached, reads |-> 0]
    ELSE load_data(file, clk)

\* main from line 89 on, loaded being the outcome of its load_data().  No
\* call of main is in a try: an exception of load_data or of a selector
\* leaves main there, after what has been rendered.
main_loaded(loaded, cached, clk) ==
    LET top == <<Rendering("markdown", "style", None),
                 Rendering("title", "Next Available Buses", None)>>
        to_work ==
            get_next_buses(loaded.value, RouteToWork, DefaultMaxResults,
                           Drop(clk, loaded.reads))
        to_palo_alto ==
            get_next_buses(to_work.df, RouteToPaloAlto, DefaultMaxResults,
                           Drop(clk, loaded.reads + to_work.reads))
        last_bus ==
            get_last_bus_from_work(to_palo_alto.df,
                                   Drop(clk, loaded.reads + to_work.reads + to_palo_alto.reads))
        \* lines 95, 105 and 115: rendered up to each header
        at_work == Append(top, Rendering("header", "Palo Alto -> Work", None))
        at_palo_alto ==
            at_work \o NextBusesSection(to_work.ret)
                    \o <<Spacer, Rendering("header", "Work -> Palo Alto", None)>>
        at_last_bus ==
            at_palo_alto \o NextBusesSection(to_palo_alto.ret)
                         \o <<Spacer, Rendering("header", "Last Bus (Work -> Palo Alto)", None)>>
    IN  IF loaded.raised # "None"
        THEN [raised |-> loaded.raised, rendered |-> top, cache |-> cached,
              df |-> None, reads |-> loaded.reads]
        ELSE IF Empty(loaded.value)
        THEN [raised |-> "None",
              rendered |-> Append(top, Rendering("warning", "No schedule data found!", None)),
              cache |-> loaded.value, df |-> loaded.value, reads |-> loaded.reads]
        ELSE IF to_work.raised # "None"
        THEN [raised |-> to_work.raised, rendered |-> at_work,
              cache |-> loaded.value, df |-> to_work.df,
              reads |-> loaded.reads + to_work.reads]
        ELSE IF to_palo_alto.raised # "None"
        THEN [raised |-> to_palo_alto.raised, rendered |-> at_palo_alto,
              cache |-> loaded.value, df |-> to_palo_alto.df,
              reads |-> loaded.reads + to_work.reads + to_palo_alto.reads]
        ELSE IF last_bus.raised # "None"
        THEN [raised |-> last_bus.raised, rendered |-> at_last_bus,
              cache |-> loaded.value, df |-> last_bus.df,
              reads |-> loaded.reads + to_work.reads + to_palo_alto.reads + last_bus.reads]
        ELSE [raised |-> "None",
              rendered |-> at_last_bus \o LastBusSection(last_bus.ret),
              cache |-> loaded.value,
              df |-> last_bus.df,
              reads |-> loaded.reads + to_work.reads + to_palo_alto.reads + last_bus.reads]

main(cached, file, clk) ==
    main_loaded(cached_load_data(cached, file, clk), cached, clk)

----------------------------------------------------------------------------
(* The actions *)

Init ==
    /\ csv \in Files
    /\ cache = None
    /\ df = None
    /\ call = NoCall

\* The first load_data() of the session; st.cache_data keeps the table it
\* returns, and nothing is kept when it raises.
LoadData ==
    /\ Idle
    /\ ~Loaded
    /\ \E now0 \in NowValues :
         \E clk \in ClockTraces(now0, ClockReads(Cells(csv), Len(csv.rows))) :
            LET r == load_data(csv, clk)
            IN  /\ cache' = r.value
                /\ df' = r.value
                /\ call' = [NoCall EXCEPT !.op = "load_data", !.raised = r.raised,
                               !.clk = SubSeq(clk, 1, r.reads), !.ret = r.value]
    /\ UNCHANGED csv

\* One run of the script
Main ==
    /\ Idle
    /\ \E now0 \in NowValues :
         \E clk \in ClockTraces(now0,
                 IF cache.kind = "DataFrame" THEN 6 + 3 * Size(cache)
                 ELSE ClockReads(Cells(csv), Len(csv.rows)) + 6 + 3 * Len(csv.rows)) :
            \E r \in {main(cache, csv, clk)} :
                /\ cache' = r.cache
                /\ df' = r.df
                /\ call' = [NoCall EXCEPT !.op = "main", !.raised = r.raised,
                               !.rendered = r.rendered, !.clk = SubSeq(clk, 1, r.reads)]
    /\ UNCHANGED csv

NextBusesCall(route, max_results, clk, again) ==
    \E r \in {get_next_buses(df, route, max_results, clk)} :
        /\ df' = r.df
        /\ call' = [NoCall EXCEPT !.op = "get_next_buses",
                       !.route = route, !.max_results = max_results,
                       !.clk = SubSeq(clk, 1, r.reads), !.ret = r.ret,
                       !.raised = r.raised,
                       !.table = df, !.repeated = again,
                       !.prev_table = IF again THEN call.table ELSE None,
                       !.prev_clk = IF again THEN call.clk ELSE <<>>,
                       !.prev_ret = IF again THEN call.ret ELSE None,
                       !.prev_raised = IF again THEN call.raised ELSE "None"]

LatestBusCall(route, clk, again) ==
    \E r \in {get_latest_bus(df, route, clk)} :
        /\ df' = r.df
        /\ call' = [NoCall EXCEPT !.op = "get_latest_bus", !.route = route,
                       !.clk = SubSeq(clk, 1, r.reads), !.ret = r.ret,
                       !.raised = r.raised,
                       !.table = df, !.repeated = again,
                       !.prev_table = IF again THEN call.table ELSE None,
                       !.prev_clk = IF again THEN call.clk ELSE <<>>,
                       !.prev_ret = IF again THEN call.ret ELSE None,
                       !.prev_raised = IF again THEN call.raised ELSE "None"]

LastBusFromWorkCall(clk, again) ==
    \E r \in {get_last_bus_from_work(df, clk)} :
        /\ df' = r.df
        /\ call' = [NoCall EXCEPT !.op = "get_last_bus_from_work",
                       !.clk = SubSeq(clk, 1, r.reads), !.ret = r.ret,
                       !.raised = r.raised,
                       !.table = df, !.repeated = again,
                       !.prev_table = IF again THEN call.table ELSE None,
                       !.prev_clk = IF again THEN call.clk ELSE <<>>,
                       !.prev_ret = IF again THEN call.ret ELSE None,
                       !.prev_raised = IF again THEN call.raised ELSE "None"]

GetNextBuses ==
    /\ Idle
    /\ Loaded
    /\ \E route \in Routes, max_results \in Limits, now0 \in NowValues :
         \E clk \in ClockTraces(now0,
                 get_next_buses(df, route, max_results, Frozen(now0, 1 + 3 * Size(df))).reads) :
            NextBusesCall(route, max_results, clk, FALSE)
    /\ UNCHANGED <<csv, cache>>

GetLatestBus ==
    /\ Idle
    /\ Loaded
    /\ \E route \in Routes, now0 \in NowValues :
         \E clk \in ClockTraces(now0,
                 get_latest_bus(df, route, Frozen(now0, 1 + 3 * Size(df))).reads) :
            LatestBusCall(route, clk, FALSE)
    /\ UNCHANGED <<csv, cache>>

GetLastBusFromWork ==
    /\ Idle
    /\ Loaded
    /\ \E now0 \in NowValues :
         \E clk \in ClockTraces(now0, 4) :
            LastBusFromWorkCall(clk, FALSE)
    /\ UNCHANGED <<csv, cache>>

\* A selector that was called with the clock standing is called once more,
\* on the frame as that call left it, with the same arguments and the clock
\* showing the same time at the first reading; after that the clock stands
\* or moves as in any call.
CallAgain ==
    /\ Loaded
    /\ call.op \in {"get_next_buses", "get_latest_bus", "get_last_bus_from_work"}
    /\ \A i \in 1..Len(call.clk) : call.clk[i] = call.clk[1]
    /\ LET now0 == TimeOf(call.clk[1])
           still == Frozen(now0, 1 + 3 * Size(df))
       IN  CASE call.op = "get_next_buses" ->
                    \E clk \in ClockTraces(now0,
                            get_next_buses(df, call.route, call.max_results, still).reads) :
                        NextBusesCall(call.route, call.max_results, clk, TRUE)
             [] call.op = "get_latest_bus" ->
                    \E clk \in ClockTraces(now0,
                            get_latest_bus(df, call.route, still).reads) :
                        LatestBusCall(call.route, clk, TRUE)
             [] call.op = "get_last_bus_from_work" ->
                    \E clk \in ClockTraces(now0, 4) :
                        LastBusFromWorkCall(clk, TRUE)
    /\ UNCHANGED <<csv, cache>>

\* time_difference called on its own; it reads no table, and is called here
\* before the session has one
TimeDifference ==
    /\ call.op = "none"
    /\ ~Loaded
    /\ \E dep_time \in DepTimes, now0 \in NowValues :
         \E clk \in ClockTraces(now0, 3) :
            call' = [NoCall EXCEPT !.op = "time_difference", !.dep_time = dep_time,
                        !.clk = clk,
                        !.ret = time_difference(dep_time, clk[1], clk[2], clk[3])]
    /\ UNCHANGED <<csv, cache, df>>

\* The result of the last call has been rendered and is dropped
Discard ==
    /\ ~Idle
    /\ call' = NoCall
    /\ UNCHANGED <<csv, cache, df>>

Next ==
    \/ LoadData
    \/ Main
    \/ GetNextBuses
    \/ GetLatestBus
    \/ GetLastBusFromWork
    \/ CallAgain
    \/ TimeDifference
    \/ Discard

Spec == Init /\ [][Next]_vars

----------------------------------------------------------------------------
(* What the claims are stated with *)

\* time of day a is after time of day b
After(a, b) == a.sec > b.sec \/ (a.sec = b.sec /\ a.us > b.us)

\* the time of day of the call's first clock reading: the now of its filter
FilterNow == TimeOf(call.clk[1])

DepartureOf(frame, i) == frame.data[i][ColDeparture]
RouteOf(frame, i) == frame.data[i][ColRoute]

\* the rows of the table on the route that depart after / before now
\* (a row whose Departure Time is missing departs neither after nor before)
FutureRows(route, now) ==
    {i \in 1..Size(df) :
        /\ RouteOf(df, i) = route
        /\ DepartureOf(df, i) # NaT
        /\ After(DepartureOf(df, i), now)}
PastRows(route, now) ==
    {i \in 1..Size(df) :
        /\ RouteOf(df, i) = route
        /\ DepartureOf(df, i) # NaT
        /\ After(now, DepartureOf(df, i))}

\* the text for a duration of d whole seconds
TimeLeftText(d) ==
    IF d >= 7200
    THEN ToString(d \div 3600) \o " hours " \o ToString((d % 3600) \div 60) \o " minutes"
    ELSE ToString(d \div 60) \o " minutes " \o ToString(d % 60) \o " seconds"

\* the whole seconds from now to dep, dep taken on the next day when it is
\* before now
SecondsUntil(dep, now) ==
    (IF After(now, dep) THEN dep.sec + 86400 ELSE dep.sec) - now.sec
        - (IF dep.us < now.us THEN 1 ELSE 0)

\* the whole seconds from now to dep with no day added
SecondsBetween(dep, now) == dep.sec - now.sec - (IF dep.us < now.us THEN 1 ELSE 0)

\* every reading of the call shows the time of day t of the first day
ClockStoodAt(t) ==
    \A i \in 1..Len(call.clk) : call.clk[i] = [day |-> 0, sec |-> t.sec, us |-> t.us]

ClockStood == \A i \in 1..Len(call.clk) : call.clk[i] = call.clk[1]

\* the table load_data makes of the scenario's three rows
ScenarioLoaded == Loaded /\ csv = ScenarioFile

AnnotatedRow(route, dep, text) ==
    (ColRoute :> route) @@ (ColDeparture :> dep) @@ (ColTimeLeft :> text)

----------------------------------------------------------------------------
(* C1 *)

\* C1: whatever the table, the route, the time and the limit, get_next_buses
\* does not fail: it returns only rows of the requested route that depart
\* strictly after now, at most max_results of them, in ascending order of
\* departure, and exactly the max_results earliest such rows of the table; it
\* returns an empty frame when no row matches.
C1_NextDepartures ==
    call.op = "get_next_buses" =>
        LET out == call.ret
            M == FutureRows(call.route, FilterNow)
            InOut(t) == Cardinality({j \in 1..Size(out) : DepartureOf(out, j) = t})
            InTable(t) == Cardinality({i \in M : DepartureOf(df, i) = t})
        IN  /\ call.raised = "None"
            /\ out.kind = "DataFrame"
            /\ \A j \in 1..Size(out) :
                  /\ RouteOf(out, j) = call.route
                  /\ After(DepartureOf(out, j), FilterNow)
                  /\ InOut(DepartureOf(out, j)) <= InTable(DepartureOf(out, j))
            /\ Size(out) <= call.max_results
            /\ \A j \in 1..(Size(out) - 1) :
                  ~After(DepartureOf(out, j), DepartureOf(out, j + 1))
            /\ Size(out) = Min(call.max_results, Cardinality(M))
            /\ \A j \in 1..Size(out) : \A i \in M :
                  After(DepartureOf(out, j), DepartureOf(df, i))
                      => InOut(DepartureOf(df, i)) = InTable(DepartureOf(df, i))
            /\ (M = {} => Size(out) = 0)

----------------------------------------------------------------------------
(* C2 *)

\* C2: whatever the table, the route and the time, get_latest_bus returns:
\* None when no row of the route departs strictly before now, and otherwise
\* exactly one row of the route, departing strictly before now and latest
\* among the rows that do.
C2_MostRecentPast ==
    call.op = "get_latest_bus" =>
        LET P == PastRows(call.route, FilterNow)
        IN  /\ call.raised = "None"
            /\ (P = {} => call.ret = None)
            /\ (P # {} =>
                  /\ call.ret.kind = "DataFrame"
                  /\ Size(call.ret) = 1
                  /\ RouteOf(call.ret, 1) = call.route
                  /\ After(FilterNow, DepartureOf(call.ret, 1))
                  /\ \E i \in P : /\ DepartureOf(df, i) = DepartureOf(call.ret, 1)
                                  /\ df.index[i] = call.ret.index[1]
                  /\ \A i \in P : ~After(DepartureOf(df, i), DepartureOf(call.ret, 1)))

----------------------------------------------------------------------------
(* C3 *)

\* C3: get_last_bus_from_work returns, and returns None exactly when no row
\* of "Work -> Palo Alto" departs strictly after now (past rows of the route
\* or not), and otherwise the one row of that route that departs latest
\* among those after now, with a Time Left text.
C3_LastBusOfDay ==
    call.op = "get_last_bus_from_work" =>
        LET F == FutureRows(RouteToPaloAlto, FilterNow)
        IN  /\ call.raised = "None"
            /\ (call.ret = None <=> F = {})
            /\ (F # {} =>
                  /\ call.ret.kind = "DataFrame"
                  /\ Size(call.ret) = 1
                  /\ RouteOf(call.ret, 1) = RouteToPaloAlto
                  /\ After(DepartureOf(call.ret, 1), FilterNow)
                  /\ \E i \in F : DepartureOf(df, i) = DepartureOf(call.ret, 1)
                  /\ \A i \in F : ~After(DepartureOf(df, i), DepartureOf(call.ret, 1))
                  /\ call.ret.columns = <<ColRoute, ColDeparture, ColTimeLeft>>
                  /\ call.ret.data[1][ColTimeLeft] =
                        TimeLeftText(SecondsUntil(DepartureOf(call.ret, 1),
                                                  TimeOf(call.clk[2]))))

----------------------------------------------------------------------------
(* C4 *)

\* C4: for the duration of d whole seconds that time_difference computes, its
\* text is "H hours M minutes" with H = d div 3600 and M = (d mod 3600) div 60
\* when d >= 7200, and "M minutes S seconds" with M = d div 60 and
\* S = d mod 60 when d < 7200; 7200 gives "2 hours 0 minutes" and 7199 gives
\* "119 minutes 59 seconds".
C4_FormatBoundary ==
    call.op = "time_difference" =>
        LET td == time_diff(call.dep_time, call.clk[1], call.clk[2], call.clk[3])
            d == td.days * 86400 + td.seconds
        IN  /\ call.ret = TimeLeftText(d)
            /\ (d = 7200 => call.ret = "2 hours 0 minutes")
            /\ (d = 7199 => call.ret = "119 minutes 59 seconds")

\* a duration of exactly two hours has been formatted
C4_Witness ==
    /\ call.op = "time_difference"
    /\ SecondsUntil(call.dep_time, FilterNow) = 7200
    /\ call.ret = "2 hours 0 minutes"

----------------------------------------------------------------------------
(* C5 *)

\* C5: time_difference takes a departure before now on the next day and any
\* other departure on the same day: its duration is departure + 86400 s - now
\* in the first case and departure - now in the second, always >= 0 and
\* < 86400 s, and that is the duration its text shows.  So get_latest_bus on
\* the scenario rows at 09:00:00 returns the 08:00:00 row with the text
\* "23 hours 0 minutes".
C5_Wraparound ==
    /\ call.op = "time_difference" =>
          LET td == time_diff(call.dep_time, call.clk[1], call.clk[2], call.clk[3])
              now == TimeOf(call.clk[1])
              borrow == IF call.dep_time.us < now.us THEN 1 ELSE 0
          IN  /\ td.days = 0
              /\ td.seconds >= 0 /\ td.seconds < 86400
              /\ td.microseconds = call.dep_time.us - now.us + borrow * 1000000
              /\ After(now, call.dep_time) =>
                    td.seconds = call.dep_time.sec + 86400 - now.sec - borrow
              /\ ~After(now, call.dep_time) =>
                    td.seconds = call.dep_time.sec - now.sec - borrow
              /\ call.ret = TimeLeftText(SecondsUntil(call.dep_time, now))
    /\ ( /\ call.op = "get_latest_bus"
         /\ ScenarioLoaded
         /\ call.route = "X->Y"
         /\ ClockStoodAt(Time(9, 0, 0, 0)) )
          => /\ call.ret # None
             /\ call.ret.data = <<AnnotatedRow("X->Y", Time(8, 0, 0, 0), "23 hours 0 minutes")>>

\* the scenario: the latest past bus at 09:00:00 is the one of 08:00:00
C5_Witness ==
    /\ call.op = "get_latest_bus"
    /\ ScenarioLoaded
    /\ call.route = "X->Y"
    /\ ClockStoodAt(Time(9, 0, 0, 0))
    /\ call.ret # None
    /\ call.ret.data[1][ColTimeLeft] = "23 hours 0 minutes"

----------------------------------------------------------------------------
(* C6 *)

\* the position among the rows the filter kept of row i of the table
RankIn(M, i) == Cardinality({k \in M : k <= i})

\* C6: for every row get_next_buses or get_last_bus_from_work returns, the
\* call of time_difference for that row adds no day: at its own clock reading
\* the departure is not before now, and the text is that of departure - now.
C6_NoWraparoundForFuture ==
    /\ (call.op = "get_next_buses" /\ call.raised = "None") =>
          LET M == FutureRows(call.route, FilterNow)
          IN  \A j \in 1..Size(call.ret) :
                 \E i \in M :
                    LET now == TimeOf(call.clk[3 * RankIn(M, i) - 1])
                    IN  /\ DepartureOf(df, i) = DepartureOf(call.ret, j)
                        /\ ~After(now, DepartureOf(df, i))
                        /\ call.ret.data[j][ColTimeLeft] =
                              TimeLeftText(SecondsBetween(DepartureOf(df, i), now))
    /\ (call.op = "get_last_bus_from_work" /\ call.ret # None) =>
          LET now == TimeOf(call.clk[2])
          IN  /\ ~After(now, DepartureOf(call.ret, 1))
              /\ call.ret.data[1][ColTimeLeft] =
                    TimeLeftText(SecondsBetween(DepartureOf(call.ret, 1), now))

----------------------------------------------------------------------------
(* C7 *)

\* load_data raises on the file; no clock reading decides that
LoadFails ==
    load_data(csv, Frozen(Time(0, 0, 0, 0), Len(csv.rows))).raised # "None"

\* C7: when load_data fails, main hands the renderer "No schedule data
\* found!" as its last word, renders no bus section, and no exception leaves
\* main.
C7_LoadErrorSurfaced ==
    (call.op = "main" /\ LoadFails) =>
        /\ call.raised = "None"
        /\ call.rendered # <<>>
        /\ call.rendered[Len(call.rendered)] =
              Rendering("warning", "No schedule data found!", None)
        /\ \A k \in 1..Len(call.rendered) : call.rendered[k].fn \notin {"header", "table", "info"}

----------------------------------------------------------------------------
(* C8 *)

\* C8 as stated: on the scenario rows with the clock at 07:45:00,
\* get_next_buses("X->Y", 4) returns the 08:00:00 row with "15 minutes 0
\* seconds" and then the 09:30:00 row with "1 hours 45 minutes".
C8_AsStated ==
    ( /\ call.op = "get_next_buses"
      /\ ScenarioLoaded
      /\ call.route = "X->Y"
      /\ call.max_results = 4
      /\ ClockStoodAt(Time(7, 45, 0, 0)) )
        => call.ret.data =
              << AnnotatedRow("X->Y", Time(8, 0, 0, 0), "15 minutes 0 seconds"),
                 AnnotatedRow("X->Y", Time(9, 30, 0, 0), "1 hours 45 minutes") >>

\* C8 amended: on the scenario rows with the clock at 07:45:00,
\* get_next_buses("X->Y", 4) returns exactly two rows in this order: the
\* 08:00:00 row with "15 minutes 0 seconds" and the 09:30:00 row with
\* "105 minutes 0 seconds" (6300 s is below two hours).
C8_Scenario ==
    ( /\ call.op = "get_next_buses"
      /\ ScenarioLoaded
      /\ call.route = "X->Y"
      /\ call.max_results = 4
      /\ ClockStoodAt(Time(7, 45, 0, 0)) )
        => /\ call.ret.columns = <<ColRoute, ColDeparture, ColTimeLeft>>
           /\ call.ret.index = <<0, 1>>
           /\ call.ret.data =
                 << AnnotatedRow("X->Y", Time(8, 0, 0, 0), "15 minutes 0 seconds"),
                    AnnotatedRow("X->Y", Time(9, 30, 0, 0), "105 minutes 0 seconds") >>

\* the scenario's call has been made
C8_Witness ==
    /\ call.op = "get_next_buses"
    /\ ScenarioLoaded
    /\ call.route = "X->Y"
    /\ call.max_results = 4
    /\ ClockStoodAt(Time(7, 45, 0, 0))
    /\ Size(call.ret) = 2

----------------------------------------------------------------------------
(* C9 *)

\* C9: when get_next_buses or get_latest_bus is called a second time with the
\* same arguments, the clock standing throughout both calls at the same
\* time, the frame the first call left is the frame it was passed, rows and
\* columns, and the second call ends as the first did and returns what the
\* first returned: the same rows in the same order with the same Time Left
\* texts.
C9_Idempotent ==
    ( /\ call.op \in {"get_next_buses", "get_latest_bus"}
      /\ call.repeated
      /\ ClockStood
      /\ \A i \in 1..Len(call.prev_clk) : call.prev_clk[i] = call.clk[1] )
        => /\ call.table = call.prev_table
           /\ call.raised = call.prev_raised
           /\ call.ret = call.prev_ret

\* a second call has returned rows, annotated by the first call too
C9_Witness ==
    /\ call.op = "get_latest_bus"
    /\ call.repeated
    /\ ClockStood
    /\ call.ret # None
    /\ call.prev_ret # None
    /\ call.ret.columns = <<ColRoute, ColDeparture, ColTimeLeft>>
    /\ Cardinality(PastRows(call.route, FilterNow)) >= 2

----------------------------------------------------------------------------
(* C10 *)

\* C10: whatever calls have been made, the frame the session holds is the
\* table as load_data returned it: the same rows in the same order, with the
\* columns Route and Departure Time and no Time Left; Time Left is on the
\* frames the selectors return only.
C10_TableReadOnly ==
    Loaded =>
        /\ df = cache
        /\ df.columns = <<ColRoute, ColDeparture>>
        /\ \A i \in 1..Size(df) : DOMAIN df.data[i] = {ColRoute, ColDeparture}
        /\ ( /\ call.op \in {"get_next_buses", "get_latest_bus", "get_last_bus_from_work"}
             /\ call.ret # None )
              => /\ call.ret.columns = <<ColRoute, ColDeparture, ColTimeLeft>>
                 /\ \A j \in 1..Size(call.ret) :
                       DOMAIN call.ret.data[j] = {ColRoute, ColDeparture, ColTimeLeft}

\* a selector has been called twice and has returned annotated rows
C10_Witness ==
    /\ Loaded
    /\ call.op = "get_next_buses"
    /\ call.repeated
    /\ call.raised = "None"
    /\ Size(call.ret) >= 2
    /\ call.ret.data[1][ColTimeLeft] # call.ret.data[2][ColTimeLeft]

====
